---- MODULE Spec2Model ----
(***************************************************************************)
(* Model of the three scripts of the repository:                           *)
(*   - the background-removal batch job   (src/누끼.py, lines 1-19)         *)
(*   - the resize batch job               (src/누끼.py, lines 21-30)        *)
(*   - the training script "ML test.py"   (src/unnamed/part_000)           *)
(* Paths are sequences of one-character strings, so that find, slicing,    *)
(* splitext and concatenation are computed as Python computes them.        *)
(***************************************************************************)
EXTENDS Integers, Sequences, FiniteSets, TLC

VARIABLES
    \* ---- batch jobs ----
    job,        \* which script runs: "remove" or "resize"
    os,         \* platform of the run: "posix" or "nt"
    dirs,       \* file system: the set of existing directories (component lists)
    fcontent,   \* file system: function from file (component list) to content
    files,      \* the list returned by glob.glob for the current run
    i,          \* 0-based index of the next element of the for loop
    count,      \* the naming counter of the background-removal job
    status,     \* "start", "running", "done" or "aborted"
    runs,       \* number of runs of the script started so far
    written,    \* history: the successful saves of the current run, in order
    loaded,     \* history: loop indices whose Image.open was attempted, this run
    failedAt,   \* history: loop index at which the current run raised, or -1
    snap,       \* history: file contents when the current run did its glob
    first,      \* history: the files matched by the first run's glob
    checked,    \* history: the output directories tested at line 16, this run
    anyFail     \* history: TRUE once some run raised

batchVars == <<job, os, dirs, fcontent, files, i, count, status, runs,
               written, loaded, failedAt, snap, first, checked, anyFail>>

VARIABLES
    \* ---- training script: the data feeds ----
    feeds,      \* the tuple of feeds image_generator returned, <<>> before the call
    lastRead    \* history: the last image read from a feed, stored and as yielded

feedVars == <<feeds, lastRead>>

VARIABLES
    \* ---- training script: model.fit with the checkpoint callback ----
    fitStatus,      \* "fit" while model.fit runs, "done" after the last epoch
    stepsPerEpoch,  \* len(train_generator): batches per epoch
    epoch,          \* 0-based number of the epoch in progress
    batch,          \* batches of the epoch trained so far
    iterations,     \* optimizer.iterations: updates applied so far
    best,           \* ModelCheckpoint.best
    lastUpdate,     \* history: epoch, step and rate of the last update
    maxSeen,        \* history: largest val_accuracy of the epochs ended so far
    saveCount,      \* history: number of saves to './model' so far
    valHist,        \* history: val_accuracy of the first epochs of the run
    saves           \* history: the epochs among those that ended with a save

fitVars == <<fitStatus, stepsPerEpoch, epoch, batch, iterations, best, lastUpdate,
             maxSeen, saveCount, valHist, saves>>

vars == <<batchVars, feedVars, fitVars>>

-----------------------------------------------------------------------------
(* Bounds *)
MaxRuns == 2       \* runs of a batch script over the same directory
MaxBatches == 3    \* largest number of batches per epoch

-----------------------------------------------------------------------------
(* String helpers: Python str operations on sequences of characters *)

Min(a, b) == IF a <= b THEN a ELSE b
Max(a, b) == IF a >= b THEN a ELSE b

\* 0-based index of the first character of s that is in cs, -1 when there is none
FindAny(s, cs) ==
    IF \E k \in 1..Len(s) : s[k] \in cs
    THEN (CHOOSE k \in 1..Len(s) : s[k] \in cs /\ \A j \in 1..(k-1) : s[j] \notin cs) - 1
    ELSE -1

\* str.find(c): 0-based index of the first occurrence of c, -1 when absent
Find(s, c) == FindAny(s, {c})

\* str.rfind over a set of characters: 0-based index of the last one, -1 when absent
RFind(s, cs) ==
    IF \E k \in 1..Len(s) : s[k] \in cs
    THEN (CHOOSE k \in 1..Len(s) : s[k] \in cs /\ \A j \in (k+1)..Len(s) : s[j] \notin cs) - 1
    ELSE -1

\* s[:idx] with Python's meaning of a negative index
SliceTo(s, idx) ==
    IF idx >= 0 THEN SubSeq(s, 1, Min(idx, Len(s)))
    ELSE SubSeq(s, 1, Max(Len(s) + idx, 0))

\* s[idx:] for idx >= 0
SliceFrom(s, idx) == SubSeq(s, idx + 1, Len(s))

EndsWith(s, suf) ==
    /\ Len(s) >= Len(suf)
    /\ SubSeq(s, Len(s) - Len(suf) + 1, Len(s)) = suf

Digit(d) == CASE d = 0 -> "0" [] d = 1 -> "1" [] d = 2 -> "2" [] d = 3 -> "3"
              [] d = 4 -> "4" [] d = 5 -> "5" [] d = 6 -> "6" [] d = 7 -> "7"
              [] d = 8 -> "8" [] d = 9 -> "9"

\* str(n) for n >= 0
RECURSIVE Str(_)
Str(n) == IF n < 10 THEN <<Digit(n)>> ELSE Str(n \div 10) \o <<Digit(n % 10)>>

\* the path separators of the platform (os.sep and os.altsep)
Seps(o) == IF o = "nt" THEN {"\\", "/"} ELSE {"/"}
OsSep(o) == IF o = "nt" THEN "\\" ELSE "/"

\* os.path.splitext(p): <<root, ext>>
SplitExt(p, o) ==
    LET sepIndex == RFind(p, Seps(o))
        dotIndex == RFind(p, {"."})
    IN  IF /\ dotIndex > sepIndex
           /\ \E k \in (sepIndex + 1)..(dotIndex - 1) : p[k + 1] # "."
        THEN <<SliceTo(p, dotIndex), SliceFrom(p, dotIndex)>>
        ELSE <<p, <<>>>>

\* the components of a path, as the operating system resolves it from the
\* working directory: split at the separators, "." and empty components dropped
RECURSIVE Components(_, _)
Components(p, o) ==
    LET k == FindAny(p, Seps(o))
    IN  IF p = <<>> THEN <<>>
        ELSE IF k = -1 THEN (IF p = <<".">> THEN <<>> ELSE <<p>>)
        ELSE LET head == SliceTo(p, k)
                 rest == Components(SliceFrom(p, k + 1), o)
             IN  IF head = <<>> \/ head = <<".">> THEN rest ELSE <<head>> \o rest

Parent(c) == SubSeq(c, 1, Len(c) - 1)

-----------------------------------------------------------------------------
(* Literals of the two batch scripts *)

RemoveDir == <<".", "/", "a", "v", "a", "n", "t", "e", " ", "n">>
RemoveExt == <<".", "p", "n", "g">>
RemoveSuffix == <<"_", "r", "e", "m", "o", "v", "e">>
ResizeDir == <<".", "/", "d", "a", "t", "a", "/", "k", "9">>
ResizeExt == <<".", "j", "p", "g">>
HalfSuffix == <<"_", "h", "a", "l", "f">>

SrcDir(j) == IF j = "remove" THEN RemoveDir ELSE ResizeDir
SrcExt(j) == IF j = "remove" THEN RemoveExt ELSE ResizeExt

-----------------------------------------------------------------------------
(* File system *)

\* os.path.exists(p)
Exists(p, o, ds, fc) ==
    LET c == Components(p, o) IN c \in ds \/ c \in DOMAIN fc

\* open(p, "wb") succeeds: the parent is a directory and p itself is none
CanWrite(p, o, ds) ==
    LET c == Components(p, o) IN c # <<>> /\ Parent(c) \in ds /\ c \notin ds

\* os.mkdir(p) succeeds: the parent is a directory and nothing is at p
CanMkdir(p, o, ds, fc) ==
    LET c == Components(p, o)
    IN  c # <<>> /\ Parent(c) \in ds /\ c \notin ds /\ c \notin DOMAIN fc

Put(fc, c, v) == [q \in DOMAIN fc \cup {c} |-> IF q = c THEN v ELSE fc[q]]

\* glob.glob(dir + "/*" + ext): the paths, joined with os.sep, of the entries
\* of dir whose name ends with ext and does not start with a dot
Glob(dir, ext, o, ds, fc) ==
    LET d == Components(dir, o)
        entries == {c \in (DOMAIN fc) \cup ds : c # <<>> /\ Parent(c) = d}
        names == {c[Len(c)] : c \in entries}
    IN  {dir \o <<OsSep(o)>> \o n : n \in {m \in names : EndsWith(m, ext) /\ m[1] # "."}}

\* the orders in which glob may return a set of paths
RECURSIVE Orders(_)
Orders(S) ==
    IF S = {} THEN {<<>>}
    ELSE UNION {{<<x>> \o rest : rest \in Orders(S \ {x})} : x \in S}

-----------------------------------------------------------------------------
(* The batch jobs *)

\* a variant that leaves the title as it is when it holds no backslash
TruncateKeep(title) ==
    IF Find(title, "\\") = -1 THEN title ELSE SliceTo(title, Find(title, "\\"))

\* title = title[:title.find('\\')]
Truncate(title) == SliceTo(title, Find(title, "\\"))

\* title + '_remove'
OutDir(title) == title \o RemoveSuffix

\* new_name = title + '_remove' + str(count) + ext
NewName(title, c, ext) == title \o RemoveSuffix \o Str(c) \o ext

\* the path given to out.save: title + '_remove/' + new_name
SavePath(title, c, ext) == OutDir(title) \o <<"/">> \o NewName(title, c, ext)

\* a variant that does not advance the counter
NextCountStuck(c) == c

\* count += 1
NextCount(c) == c + 1

\* a variant that puts the suffix after the extension
HalfPathAfterExt(f, o) == f \o HalfSuffix

\* title + '_half' + ext
HalfPath(f, o) == SplitExt(f, o)[1] \o HalfSuffix \o SplitExt(f, o)[2]

\* the result of a transformation applied to a loaded image
Transformed(img, op) == [orig |-> img.orig, ops |-> Append(img.ops, op)]

\* a variant that skips the failing file and goes on with the next
OnErrorSkip(idx) == [status |-> "running", i |-> idx + 1]

\* neither loop has a try/except: an exception raised in the body at loop index
\* idx ends the script there
OnError(idx) == [status |-> "aborted", i |-> idx]

\* the steps of a loop body that can raise
RemoveSteps == {"none", "load", "remove", "mkdir", "save"}
ResizeSteps == {"none", "load", "resize", "save"}

\* The script starts: the glob is evaluated once, the counter set to 0.
Start ==
    /\ status \in {"start", "done", "aborted"}
    /\ runs < MaxRuns
    /\ LET matched == Glob(SrcDir(job), SrcExt(job), os, dirs, fcontent)
       IN  /\ files' \in Orders(matched)
           /\ first' = IF runs = 0 THEN matched ELSE first
    /\ count' = 0
    /\ i' = 0
    /\ status' = "running"
    /\ runs' = runs + 1
    /\ written' = <<>>
    /\ loaded' = <<>>
    /\ failedAt' = -1
    /\ snap' = fcontent
    /\ checked' = <<>>
    /\ UNCHANGED <<job, os, dirs, fcontent, anyFail>>
    /\ UNCHANGED <<feedVars, fitVars>>

\* a loop body raised at index i: what is left behind
Raise(newDirs, newChecked) ==
    /\ dirs' = newDirs
    /\ checked' = newChecked
    /\ status' = OnError(i).status
    /\ i' = OnError(i).i
    /\ failedAt' = IF failedAt = -1 THEN i ELSE failedAt
    /\ anyFail' = TRUE
    /\ loaded' = Append(loaded, i)
    /\ UNCHANGED <<job, os, fcontent, files, count, runs, written, snap, first>>

\* One pass through the body of the background-removal loop (lines 9-19).
RemoveIter(failAt) ==
    /\ UNCHANGED <<feedVars, fitVars>>
    /\ job = "remove"
    /\ status = "running"
    /\ i < Len(files)
    /\ LET f == files[i + 1]
           loadOk == failAt # "load" /\ Components(f, os) \in DOMAIN fcontent
           se == SplitExt(f, os)
           ext == se[2]
           title == Truncate(se[1])
           removeOk == failAt # "remove"
           needDir == ~Exists(OutDir(title), os, dirs, fcontent)
           mkdirOk == failAt # "mkdir" /\ CanMkdir(OutDir(title), os, dirs, fcontent)
           dirs1 == IF needDir THEN dirs \cup {Components(OutDir(title), os)} ELSE dirs
           path == SavePath(title, count, ext)
           saveOk == failAt # "save" /\ CanWrite(path, os, dirs1)
           checked1 == Append(checked, [src |-> f, dir |-> OutDir(title),
                                        existed |-> ~needDir,
                                        made |-> needDir /\ mkdirOk])
       IN  IF ~loadOk \/ ~removeOk
           THEN Raise(dirs, checked)
           ELSE IF needDir /\ ~mkdirOk
           THEN Raise(dirs, checked1)
           ELSE IF ~saveOk
           THEN Raise(dirs1, checked1)
           ELSE /\ dirs' = dirs1
                /\ checked' = checked1
                /\ fcontent' = Put(fcontent, Components(path, os),
                                   Transformed(fcontent[Components(f, os)], "remove"))
                /\ written' = Append(written, [idx |-> i, src |-> f, path |-> path,
                                               dir |-> OutDir(title), counter |-> count])
                /\ count' = NextCount(count)
                /\ i' = i + 1
                /\ loaded' = Append(loaded, i)
                /\ UNCHANGED <<job, os, files, status, runs, failedAt, snap, first, anyFail>>

\* One pass through the body of the resize loop (lines 26-30).
ResizeIter(failAt) ==
    /\ UNCHANGED <<feedVars, fitVars>>
    /\ job = "resize"
    /\ status = "running"
    /\ i < Len(files)
    /\ LET f == files[i + 1]
           loadOk == failAt # "load" /\ Components(f, os) \in DOMAIN fcontent
           resizeOk == failAt # "resize"
           path == HalfPath(f, os)
           saveOk == failAt # "save" /\ CanWrite(path, os, dirs)
       IN  IF ~loadOk \/ ~resizeOk \/ ~saveOk
           THEN Raise(dirs, checked)
           ELSE /\ fcontent' = Put(fcontent, Components(path, os),
                                   Transformed(fcontent[Components(f, os)], "resize"))
                /\ written' = Append(written, [idx |-> i, src |-> f, path |-> path,
                                               dir |-> ResizeDir, counter |-> 0])
                /\ i' = i + 1
                /\ loaded' = Append(loaded, i)
                /\ UNCHANGED <<job, os, dirs, files, count, status, runs, failedAt,
                               snap, first, checked, anyFail>>

\* The for loop is exhausted: the script ends normally.
Finish ==
    /\ status = "running"
    /\ i = Len(files)
    /\ status' = "done"
    /\ UNCHANGED <<job, os, dirs, fcontent, files, i, count, runs, written, loaded,
                   failedAt, snap, first, checked, anyFail>>
    /\ UNCHANGED <<feedVars, fitVars>>

-----------------------------------------------------------------------------
(* Initial file systems *)

Original(c) == [orig |-> c, ops |-> <<>>]

RemoveHome == Components(RemoveDir, "posix")
ResizeHome == Components(ResizeDir, "posix")

\* files that may be in './avante n' before the first run
RemoveCandidates ==
    {RemoveHome \o <<n>> : n \in {<<"a">> \o RemoveExt, <<"a", "b">> \o RemoveExt,
                                  <<"b", "b">> \o RemoveExt, <<"c">> \o ResizeExt}}

\* directories that may exist before the first run, besides the source directory
RemoveOldDirs ==
    LET r(t) == t \o RemoveSuffix
        home == RemoveHome[1]
    IN  {<<r(home)>>}
        \cup {<<home, r(t)>> : t \in {<<>>, <<"a">>, <<"b">>}}
        \cup {<<home, r(t), home>> : t \in {<<>>, <<"a">>, <<"b">>}}

\* what may be in './data/k9' before the first run: up to two images, one of
\* them possibly named like the output of the other, and possibly a file the
\* pattern does not match
ResizeListings ==
    LET a == <<"a">> \o ResizeExt
        b == <<"b">> \o ResizeExt
        ah == <<"a">> \o HalfSuffix \o ResizeExt
        c == <<"c">> \o RemoveExt
    IN  {{ResizeHome \o <<n>> : n \in S \cup T} :
            S \in {{}, {a}, {a, b}, {a, ah}}, T \in {{}, {c}}}

BatchStart ==
    /\ job \in {"remove", "resize"}
    /\ os \in {"posix", "nt"}
    /\ \E present \in (IF job = "remove" THEN SUBSET RemoveCandidates ELSE ResizeListings) :
           fcontent = [c \in present |-> Original(c)]
    /\ \E old \in BOOLEAN :
           dirs = IF job = "remove"
                  THEN {<<>>, RemoveHome} \cup (IF old THEN RemoveOldDirs ELSE {})
                  ELSE {<<>>, Parent(ResizeHome), ResizeHome}
    /\ files = <<>>
    /\ i = 0
    /\ count = 0
    /\ status = "start"
    /\ runs = 0
    /\ written = <<>>
    /\ loaded = <<>>
    /\ failedAt = -1
    /\ snap = fcontent
    /\ first = {}
    /\ checked = <<>>
    /\ anyFail = FALSE

NextBatch ==
    \/ Start
    \/ \E failAt \in RemoveSteps : RemoveIter(failAt)
    \/ \E failAt \in ResizeSteps : ResizeIter(failAt)
    \/ Finish

-----------------------------------------------------------------------------
(* The training script: data feeds (image_generator, lines 16-49) *)

\* config (lines 51-54)
ImageSize == 300
BatchSize == 16
ValidationPercent == 20

\* ImageDataGenerator(rescale=1./255, rotation_range=..., horizontal_flip=True,
\* ..., validation_split=validation_rate)
TrainDatagen(rate) == [rescale |-> 255, augment |-> TRUE, validation_split |-> rate]

\* ImageDataGenerator(rescale=1./255,)
TestDatagen == [rescale |-> 255, augment |-> FALSE, validation_split |-> 0]

\* datagen.flow_from_directory(directory, target_size, subset, batch_size)
FlowFromDirectory(datagen, directory, size, subset, bsize) ==
    [datagen |-> datagen, directory |-> directory, target_size |-> <<size, size>>,
     subset |-> subset, batch_size |-> bsize]

\* val_generator (lines 39-44)
ValGenerator(image_size, validation_rate, batch_size) ==
    FlowFromDirectory(TrainDatagen(validation_rate), "train", image_size,
                      "validation", batch_size)

\* image_generator(image_size, validation_rate, batch_size)
ImageGenerator(image_size, validation_rate, batch_size) ==
    <<FlowFromDirectory(TrainDatagen(validation_rate), "train", image_size,
                        "training", batch_size),
      ValGenerator(image_size, validation_rate, batch_size),
      FlowFromDirectory(TestDatagen, "test", image_size, "all", 1)>>

\* stored images: one row of three 8-bit pixels
PixelValues == {0, 128, 255}
Images == [1..3 -> PixelValues]

\* what the random transforms of the augmentation policy can make of an image:
\* nothing, a horizontal flip, a shift by one pixel either way (fill "nearest")
Augmentations(img) ==
    {img,
     [k \in 1..3 |-> img[4 - k]],
     [k \in 1..3 |-> img[Min(k + 1, 3)]],
     [k \in 1..3 |-> img[Max(k - 1, 1)]]}

\* rescale: each pixel times 1/rescale, in thousandths
Rescale(img, r) == [k \in 1..3 |-> (img[k] * 1000) \div r]

\* the images a feed may yield for a stored image
Yields(feed, img) ==
    {Rescale(a, feed.datagen.rescale) :
        a \in IF feed.datagen.augment THEN Augmentations(img) ELSE {img}}

\* positions in the returned tuple: train_generator, val_generator, test_generator
TrainFeed == 1
ValFeed == 2
TestFeed == 3
FeedNames == {TrainFeed, ValFeed, TestFeed}
NoRead == [feed |-> 0, stored |-> <<>>, out |-> <<>>]

\* lines 56-58
BuildFeeds ==
    /\ feeds = <<>>
    /\ feeds' = ImageGenerator(ImageSize, ValidationPercent, BatchSize)
    /\ UNCHANGED lastRead
    /\ UNCHANGED <<batchVars, fitVars>>

\* a feed is asked for a batch and reads one stored image for it
ReadImage(name, img) ==
    /\ feeds # <<>>
    /\ \E out \in Yields(feeds[name], img) :
           lastRead' = [feed |-> name, stored |-> img, out |-> out]
    /\ UNCHANGED feeds
    /\ UNCHANGED <<batchVars, fitVars>>

FeedsStart ==
    /\ feeds = <<>>
    /\ lastRead = NoRead

NextFeeds ==
    \/ BuildFeeds
    \/ \E name \in FeedNames, img \in Images : ReadImage(name, img)

-----------------------------------------------------------------------------
(* The training script: optimizer schedule and fit loop (lines 85-99) *)

\* epochs = 100 (line 99)
Epochs == 100

\* PiecewiseConstantDecay(boundaries=[100, 200], values=[lr, 0.0005, 0.0001]),
\* rates in units of 0.0001
Boundary1 == 100
Boundary2 == 200
Rate0 == 10
Rate1 == 5
Rate2 == 1

\* a variant whose intervals are closed on the left instead of the right
LrScheduleStrict(step) ==
    IF step < Boundary1 THEN Rate0 ELSE IF step < Boundary2 THEN Rate1 ELSE Rate2

\* lr_schedule(step): the rate of the update made when optimizer.iterations = step
LrSchedule(step) ==
    IF step <= Boundary1 THEN Rate0 ELSE IF step <= Boundary2 THEN Rate1 ELSE Rate2

\* val_accuracy values an epoch can end with, in percent
AccValues == {50, 55, 60, 70}

\* ModelCheckpoint.best before the first epoch: minus infinity for an accuracy
NegInf == -1

\* a variant in which a tie counts as an improvement
IsBetterOrEqual(current, b) == current >= b

\* ModelCheckpoint with monitor="val_accuracy": monitor_op is np.greater
IsBetter(current, b) == current > b

\* the metric sequence of the checkpoint example
Fabricated == <<50, 60, 55, 70>>

\* a variant that starts from a threshold the first epoch only equals
InitialBestThreshold == Fabricated[1]

\* ModelCheckpoint.best at the start of training
InitialBest == NegInf

NoUpdate == [epoch |-> -1, step |-> -1, lr |-> 0]

\* one training step: the optimizer applies an update at the scheduled rate
TrainBatch ==
    /\ fitStatus = "fit"
    /\ batch < stepsPerEpoch
    /\ lastUpdate' = [epoch |-> epoch, step |-> iterations, lr |-> LrSchedule(iterations)]
    /\ iterations' = iterations + 1
    /\ batch' = batch + 1
    /\ UNCHANGED <<fitStatus, stepsPerEpoch, epoch, best, maxSeen, saveCount,
                   valHist, saves>>
    /\ UNCHANGED <<batchVars, feedVars>>

\* the epoch ends with val_accuracy = v: ModelCheckpoint.on_epoch_end with
\* save_best_only=True, then the next epoch or the end of fit
EpochEnd(v) ==
    /\ fitStatus = "fit"
    /\ batch = stepsPerEpoch
    /\ LET save == IsBetter(v, best)
       IN  /\ best' = IF save THEN v ELSE best
           /\ saveCount' = IF save THEN saveCount + 1 ELSE saveCount
           /\ saves' = IF save /\ Len(valHist) < Len(Fabricated)
                       THEN saves \cup {epoch} ELSE saves
    /\ valHist' = IF Len(valHist) < Len(Fabricated) THEN Append(valHist, v) ELSE valHist
    /\ maxSeen' = Max(maxSeen, v)
    /\ epoch' = epoch + 1
    /\ batch' = 0
    /\ fitStatus' = IF epoch + 1 = Epochs THEN "done" ELSE "fit"
    /\ UNCHANGED <<stepsPerEpoch, iterations, lastUpdate>>
    /\ UNCHANGED <<batchVars, feedVars>>

FitStart ==
    /\ fitStatus = "fit"
    /\ stepsPerEpoch \in 1..MaxBatches
    /\ epoch = 0
    /\ batch = 0
    /\ iterations = 0
    /\ best = InitialBest
    /\ lastUpdate = NoUpdate
    /\ maxSeen = NegInf
    /\ saveCount = 0
    /\ valHist = <<>>
    /\ saves = {}

NextFit ==
    \/ TrainBatch
    \/ \E v \in AccValues : EpochEnd(v)

-----------------------------------------------------------------------------
(* Specifications: the three scripts do not interact, each is run alone *)

BatchIdle ==
    /\ job = "remove" /\ os = "posix" /\ dirs = {<<>>} /\ fcontent = <<>>
    /\ files = <<>> /\ i = 0 /\ count = 0 /\ status = "start" /\ runs = 0
    /\ written = <<>> /\ loaded = <<>> /\ failedAt = -1 /\ snap = <<>>
    /\ first = {} /\ checked = <<>> /\ anyFail = FALSE

FeedsIdle == feeds = <<>> /\ lastRead = NoRead

FitIdle ==
    /\ fitStatus = "done" /\ stepsPerEpoch = 1 /\ epoch = 0 /\ batch = 0
    /\ iterations = 0 /\ best = InitialBest /\ lastUpdate = NoUpdate
    /\ maxSeen = NegInf /\ saveCount = 0 /\ valHist = <<>> /\ saves = {}

InitBatch == BatchStart /\ FeedsIdle /\ FitIdle
SpecBatch == InitBatch /\ [][NextBatch]_vars

InitFeeds == FeedsStart /\ BatchIdle /\ FitIdle
SpecFeeds == InitFeeds /\ [][NextFeeds]_vars

InitFit == FitStart /\ BatchIdle /\ FeedsIdle
SpecFit == InitFit /\ [][NextFit]_vars

-----
(* Properties of the batch jobs *)

Range(s) == {s[k] : k \in 1..Len(s)}

Contains(s, sub) ==
    \E k \in 0..(Len(s) - Len(sub)) : SubSeq(s, k + 1, k + Len(sub)) = sub

Matched == Glob(SrcDir(job), SrcExt(job), os, dirs, fcontent)

\* C5: in the background-removal job the counter is 0 when the run starts and
\* after any prefix of the loop equals the number of successful saves of the
\* run; the k-th saved file (k from 0) has str(k) in its name, and an iteration
\* that raises leaves the counter as it was.
CounterCountsSaves ==
    (job = "remove" /\ status # "start") =>
        /\ count = Len(written)
        /\ \A k \in 1..Len(written) :
               /\ written[k].counter = k - 1
               /\ EndsWith(written[k].path, RemoveSuffix \o Str(k - 1) \o RemoveExt)
        /\ (i = 0 => count = 0)

CounterWitness ==
    /\ job = "remove"
    /\ status = "aborted"
    /\ count = 2
    /\ Len(written) = 2
    /\ Len(files) = 3

\* C6: in both jobs, when the body raises at loop index i the run stops there:
\* no later file is loaded or written, the outputs of files 0..i-1 are on
\* disk, and the file system holds nothing but what was there at the start of
\* the run and those outputs (no record of the progress).
AbortStopsBatch ==
    (failedAt # -1) =>
        /\ status = "aborted"
        /\ i = failedAt
        /\ \A k \in Range(loaded) : k <= failedAt
        /\ {w.idx : w \in Range(written)} = 0..(failedAt - 1)
        /\ \A w \in Range(written) :
               /\ Components(w.path, os) \in DOMAIN fcontent
               /\ fcontent[Components(w.path, os)].ops # <<>>
        /\ DOMAIN fcontent =
               DOMAIN snap \cup {Components(w.path, os) : w \in Range(written)}

AbortWitness ==
    /\ status = "aborted"
    /\ failedAt = 1
    /\ Len(files) = 3
    /\ Len(written) = 1

\* C7: in both jobs no save of a run goes to the path of a file the run's glob
\* matched: every matched file still exists with the content it had when the
\* run started.
SourcesUntouched ==
    \A f \in Range(files) :
        LET c == Components(f, os)
        IN  c \in DOMAIN snap => (c \in DOMAIN fcontent /\ fcontent[c] = snap[c])

\* the prefix of t before its first backslash, t itself when it has none
BeforeFirstSeparator(t) ==
    IF Find(t, "\\") = -1 THEN t ELSE SliceTo(t, Find(t, "\\"))

\* C8: for each file of the background-removal job the output directory is the
\* extension-stripped path truncated at its first separator plus '_remove'; it
\* is created when absent and left alone when present, and the result is saved
\* in it as truncated title + '_remove' + counter + extension.
OutputDirFromSeparator ==
    (job = "remove") =>
        /\ \A e \in Range(checked) :
               /\ e.dir = BeforeFirstSeparator(SplitExt(e.src, os)[1]) \o RemoveSuffix
               /\ (e.existed => ~e.made)
               /\ (e.made => Components(e.dir, os) \in dirs)
        /\ \A w \in Range(written) :
               LET t == BeforeFirstSeparator(SplitExt(w.src, os)[1])
               IN  /\ w.path = t \o RemoveSuffix \o <<"/">> \o t \o RemoveSuffix
                                 \o Str(w.counter) \o SplitExt(w.src, os)[2]
                   /\ Components(w.dir, os) \in dirs

NoHalfNames(S) == \A f \in S : ~Contains(f, HalfSuffix)

\* C9 (as amended): every file the resize job saves matches the job's own
\* pattern; from n matched files with no '_half' in their names, the pattern
\* matches 2n files after one complete run and 3n after two ((r+1)n after r),
\* the second run having written '<title>_half_half.jpg' files.
ResizeRunsGrow ==
    (job = "resize") =>
        /\ \A w \in Range(written) : w.path \in Matched
        /\ (status = "done" /\ ~anyFail /\ NoHalfNames(first)) =>
               /\ Cardinality(Matched) = (runs + 1) * Cardinality(first)
               /\ (runs >= 2 =>
                      \A f \in first : \E w \in Range(written) :
                          w.path = SplitExt(f, os)[1] \o HalfSuffix \o HalfSuffix \o ResizeExt)

ResizeGrowWitness ==
    /\ job = "resize"
    /\ status = "done"
    /\ ~anyFail
    /\ runs = 2
    /\ NoHalfNames(first)
    /\ Cardinality(first) = 2
    /\ Cardinality(Matched) = 6

\* C9 (as claimed): 2n matching files after one run and 4n after two.
ResizeRunsDouble ==
    (job = "resize" /\ status = "done" /\ ~anyFail /\ NoHalfNames(first)) =>
        /\ (runs = 1 => Cardinality(Matched) = 2 * Cardinality(first))
        /\ (runs = 2 => Cardinality(Matched) = 4 * Cardinality(first))

\* C10: in the background-removal job, when the extension-stripped path holds
\* no backslash, find gives -1 and the truncation drops exactly the last
\* character; the output directory is that shortened path plus '_remove', so
\* titles that differ before their last character get different directories.
NoBackslashDropsLastChar ==
    (job = "remove") =>
        /\ \A e \in Range(checked) :
               LET t == SplitExt(e.src, os)[1]
               IN  Find(t, "\\") = -1 =>
                       /\ e.dir = SubSeq(t, 1, Len(t) - 1) \o RemoveSuffix
                       /\ Len(e.dir) = Len(t) - 1 + Len(RemoveSuffix)
                       /\ e.dir # t \o RemoveSuffix
        /\ \A e1, e2 \in Range(checked) :
               LET t1 == SplitExt(e1.src, os)[1]
                   t2 == SplitExt(e2.src, os)[1]
               IN  (/\ Find(t1, "\\") = -1
                    /\ Find(t2, "\\") = -1
                    /\ SubSeq(t1, 1, Len(t1) - 1) # SubSeq(t2, 1, Len(t2) - 1))
                   => e1.dir # e2.dir

NoBackslashWitness ==
    /\ job = "remove"
    /\ os = "posix"
    /\ \E e1, e2 \in Range(checked) :
           /\ Find(SplitExt(e1.src, os)[1], "\\") = -1
           /\ Find(SplitExt(e2.src, os)[1], "\\") = -1
           /\ e1.dir # e2.dir
    /\ Len(written) >= 2

-----------------------------------------------------------------------------
(* Properties of the training script *)

\* C1: during a run the checkpoint is written at the end of an epoch only if the
\* epoch's val_accuracy is strictly greater than that of every earlier epoch;
\* an epoch whose value equals or is below the best so far writes nothing.
SaveOnlyOnStrictImprovement ==
    [][(epoch' # epoch) =>
          /\ (saveCount' # saveCount => maxSeen' > maxSeen)
          /\ (maxSeen' = maxSeen => saveCount' = saveCount)]_vars

SaveWitness ==
    /\ epoch >= 3
    /\ saveCount = 2
    /\ valHist = <<50, 60, 60>>

\* C2 (as claimed): over the val_accuracy sequence [0.5, 0.6, 0.55, 0.7] there are
\* exactly two writes, after epoch 1 and after epoch 3, none after epoch 0 or 2.
FabricatedTwoSaves ==
    (valHist = Fabricated) => saves = {1, 3}

\* C2 (as amended): over that sequence there are exactly three writes, after
\* epochs 0, 1 and 3, and none after epoch 2.
FabricatedThreeSaves ==
    (valHist = Fabricated) => (saves = {0, 1, 3} /\ Cardinality(saves) = 3)

FabricatedWitness ==
    /\ valHist = Fabricated
    /\ epoch = Len(Fabricated)
    /\ saveCount = 3

\* C3: of the three feeds only the training feed is built from the generator
\* that carries the augmentation policy; validation and test are rescale-only,
\* so a read of a validation or test image yields the stored image rescaled.
OnlyTrainAugmented ==
    /\ (feeds # <<>>) =>
           /\ feeds[TrainFeed].datagen.augment
           /\ ~feeds[ValFeed].datagen.augment
           /\ ~feeds[TestFeed].datagen.augment
    /\ (lastRead.feed \in {ValFeed, TestFeed}) =>
           lastRead.out = Rescale(lastRead.stored, 255)

\* C4 (as claimed): the rate is keyed by epoch: 0.001 for every update of epochs
\* 0..99, 0.0005 for epochs 100..199, 0.0001 from epoch 200 on, whatever the
\* number of batches per epoch.
LrKeyedByEpoch ==
    (lastUpdate.step >= 0) =>
        lastUpdate.lr = (IF lastUpdate.epoch < 100 THEN 10
                         ELSE IF lastUpdate.epoch < 200 THEN 5 ELSE 1)

\* C4 (as amended): the rate is keyed by the number of updates applied before:
\* 0.001 for updates 0..100, 0.0005 for updates 101..200, 0.0001 from update 201
\* on, the updates of epoch e being those numbered e*b .. e*b + b - 1 when an
\* epoch has b batches; in the 100-epoch
\* run every update uses 0.001 when an epoch has one batch.
LrKeyedByStep ==
    (lastUpdate.step >= 0) =>
        /\ lastUpdate.step \div stepsPerEpoch = lastUpdate.epoch
        /\ lastUpdate.lr = (IF lastUpdate.step \in 0..100 THEN 10
                            ELSE IF lastUpdate.step \in 101..200 THEN 5 ELSE 1)
        /\ (stepsPerEpoch = 1 => lastUpdate.lr = 10)

LrWitness ==
    /\ lastUpdate.epoch < 100
    /\ lastUpdate.step = 201
    /\ lastUpdate.lr = 1

====
